---- MODULE Spec2Model ----
(***************************************************************************)
(* Model of services/analytics/src/ml/price_prediction.py:                 *)
(* class PricePredictionModel (constructor, fetch_training_data,           *)
(* prepare_data, train, predict_next) together with the collaborators it   *)
(* drives: a Redis-like store (sorted-set range query, SET, EXPIRE, key    *)
(* expiry), a MinMaxScaler and the Keras engine (fit / predict).           *)
(*                                                                         *)
(* Conventions                                                             *)
(*  - Floats are exact rationals <<n, d>> in lowest terms with d > 0.      *)
(*  - Strings that are case-folded are sequences of one-letter strings.    *)
(*  - Time is counted in minutes (the code uses milliseconds); the clock   *)
(*    is frozen at Now, key expiry is the store's own action StoreExpiry.  *)
(*  - A collaborator failure is an input of the call: `fault` names the    *)
(*    single collaborator step that raises during that call.               *)
(*  - A store operation that raises has not changed the store.             *)
(***************************************************************************)
EXTENDS Integers, Sequences, FiniteSets, TLC

\* ------------------------------------------------------------------ bounds
\* rows a series may hold beyond the training minimum sequence_length + 10
MaxExtra == 1
\* fits the engine completes on one instance
MaxFits == 2
\* longest feature matrix and longest window of the windowing specification
MaxLen == 6
MaxSeq == 3
\* longest DataFrame of the specification of train's split
MaxSplitRows == 14
\* ten-thousandths of a percent around each threshold of the confidence label
MaxTicks == 5
\* most records of a range the feature extraction is run on alone
MaxRecords == 6

\* ------------------------------------------------------- program constants
\* self.sequence_length = 60
SequenceLength == 60
\* the "+ 10" of the minimum-data check of train
TrainMargin == 10
\* default lookback_days of fetch_training_data, used by train
TrainLookbackDays == 30
\* lookback_days=1 passed by predict_next
PredictLookbackDays == 1
\* default time_horizon_minutes of predict_next
DefaultHorizon == 5
\* seconds per minute in 60 * time_horizon_minutes
SecondsPerMinute == 60
\* minutes per day (timedelta(days=...))
DayMinutes == 1440

None == "None"

\* --------------------------------------------------------------- rationals
RECURSIVE GCD(_, _)
GCD(a, b) == IF b = 0 THEN a ELSE GCD(b, a % b)

Abs(x) == IF x < 0 THEN -x ELSE x

\* <<n, d>> in lowest terms, d > 0
RNorm(n, d) ==
    LET s == IF d < 0 THEN -1 ELSE 1
        g == GCD(Abs(n), Abs(d))
    IN  <<(s * n) \div g, (s * d) \div g>>

R(n) == <<n, 1>>
RAdd(x, y) == RNorm(x[1] * y[2] + y[1] * x[2], x[2] * y[2])
RSub(x, y) == RNorm(x[1] * y[2] - y[1] * x[2], x[2] * y[2])
RMul(x, y) == RNorm(x[1] * y[1], x[2] * y[2])
\* y # 0
RDiv(x, y) == RNorm(x[1] * y[2], x[2] * y[1])
RLess(x, y) == x[1] * y[2] < y[1] * x[2]
RAbs(x) == <<Abs(x[1]), x[2]>>

\* ------------------------------------------------------------ str.lower()
UpperCase == <<"B", "K", "N", "R", "T">>
LowerCase == <<"b", "k", "n", "r", "t">>

\* an upper-case letter becomes its lower-case letter, any other character stays
LowerChar(c) ==
    IF \E k \in DOMAIN UpperCase : UpperCase[k] = c
    THEN LowerCase[CHOOSE k \in DOMAIN UpperCase : UpperCase[k] = c]
    ELSE c

Lower(s) == [k \in DOMAIN s |-> LowerChar(s[k])]


\* ------------------------------------------------------------------ inputs
\* venue and symbol arguments; two spellings of one venue, and a second venue
Venues == {<<"B", "N">>, <<"b", "n">>, <<"K", "R">>}
Symbols == {<<"B", "t">>}
\* time_horizon_minutes arguments (positive)
Horizons == {1, DefaultHorizon}
\* the collaborator step that raises during a call ("none": no step raises)
TrainFaults == {"none", "zrange", "parse", "scale", "fit", "set"}
PredictFaults == {"none", "zrange", "parse", "transform", "predict", "set", "expire"}
\* model_path arguments of the constructor and the outcome of load_model
ModelPaths == {None, "saved.h5"}
\* what the engine's predict can return (the scaled price)
EngineOutputs == {<<1, 1>>, <<11, 10>>, <<4, 5>>}
\* what the engine's fit can report: <<final loss, final val_loss>>
Histories == {<<<<1, 100>>, <<2, 100>>>>}

\* datetime.now(), in minutes
Now == 50000

\* -------------------------------------------------------------------- keys
DataKey(venue, symbol) ==
    [ns |-> "orderbook:summary", venue |-> Lower(venue), symbol |-> Lower(symbol)]
MetricsKey(venue, symbol) ==
    [ns |-> "ml:training:metrics", venue |-> Lower(venue), symbol |-> Lower(symbol)]
\* the prediction key made from the symbol alone
PredictionKeyBySymbol(venue, symbol) ==
    [ns |-> "ml:predictions", venue |-> <<>>, symbol |-> Lower(symbol)]
PredictionKey(venue, symbol) ==
    [ns |-> "ml:predictions", venue |-> Lower(venue), symbol |-> Lower(symbol)]

DataKeys == {DataKey(v, s) : v \in Venues, s \in Symbols}
MetricsKeys == {MetricsKey(v, s) : v \in Venues, s \in Symbols}
PredictionKeys == {PredictionKey(v, s) : v \in Venues, s \in Symbols}
KvKeys == MetricsKeys \cup PredictionKeys

\* ------------------------------------------------------- the store's data
\* the value of a key that does not exist (GET returns nil)
NoVal == [kind |-> "none"]
\* a key that does not exist (TTL returns -2)
NoKey == [val |-> NoVal, ttl |-> -2]
\* TTL of a key that exists and has no expiry
NoTTL == -1

\* one serialized order-book record of a series whose prices start at base
OrderBookRecord(j, n, base, spacing) ==
    [timestamp |-> Now - (n - j) * spacing,
     price |-> base + j, volume |-> 10,
     bid_price |-> base + j - 1, ask_price |-> base + j + 1,
     bid_volume |-> 3, ask_volume |-> 1]

\* the members of the sorted set described by d = [n, base, spacing]: n
\* records, ascending by score (= timestamp), the last one at Now
Members(d) == [j \in 1..d.n |-> OrderBookRecord(j, d.n, d.base, d.spacing)]

\* the row counts around the two minimum-data checks
RowCounts ==
    {0, SequenceLength - 1, SequenceLength, SequenceLength + TrainMargin - 1}
        \cup (SequenceLength + TrainMargin .. SequenceLength + TrainMargin + MaxExtra)
\* minutes between two records: every minute, every half hour
Dense == 1
Sparse == 30

\* the series a data key can hold: every row count around the minimum-data
\* checks, and a series long enough for train of which less than a window
\* falls in the last day. The prices of the second venue are higher.
SeriesChoices(key) ==
    LET base == IF key.venue = Lower(<<"K", "R">>) THEN 500 ELSE 100
    IN  {[n |-> n, base |-> base, spacing |-> Dense] : n \in RowCounts}
            \cup {[n |-> SequenceLength + TrainMargin, base |-> base,
                   spacing |-> Sparse]}
\* a data key that does not exist
NoSeries == [n |-> 0, base |-> 0, spacing |-> Dense]

AllSeries == UNION {SeriesChoices(k) : k \in DataKeys} \cup {NoSeries}

\* ZRANGEBYSCORE key min max: the members with min <= score <= max, ascending
zrangebyscore(zset, lo, hi) ==
    LET InRange(r) == lo <= r.timestamp /\ r.timestamp <= hi
    IN  SelectSeq(zset, InRange)

\* ------------------------------------------------- fetch_training_data
RecordFields ==
    {"timestamp", "price", "volume", "bid_price", "ask_price", "bid_volume", "ask_volume"}

\* the loop body for one item: ok is FALSE when it raises
\* (KeyError of a missing field, ZeroDivisionError of the imbalance)
ParseRecord(record) ==
    IF ~(RecordFields \subseteq DOMAIN record) THEN [ok |-> FALSE]
    ELSE IF record.bid_volume + record.ask_volume = 0 THEN [ok |-> FALSE]
    ELSE [ok |-> TRUE,
          timestamp |-> record.timestamp,
          price |-> R(record.price),
          volume |-> R(record.volume),
          bid_ask_spread |-> R(record.ask_price - record.bid_price),
          mid_price |-> RNorm(record.ask_price + record.bid_price, 2),
          imbalance |-> RNorm(record.bid_volume,
                              record.bid_volume + record.ask_volume)]

\* lines 78-88: the loop over the items of raw_data
ParseItems(raw_data) == [k \in DOMAIN raw_data |-> ParseRecord(raw_data[k])]

\* lines 61-88 for one sorted set: the range query and the loop over its items
ParsedRange(zset, lookback_days) ==
    LET end_key == Now
        start_key == Now - lookback_days * DayMinutes
        raw_data == zrangebyscore(zset, start_key, end_key)
    IN  ParseItems(raw_data)

\* A DataFrame is named by the sorted set it was fetched from and the
\* lookback of the fetch; Rows gives its rows. What the code computes from a
\* frame's rows is tabulated once per frame.
Lookbacks == {PredictLookbackDays, TrainLookbackDays}
Frames == {[series |-> z, lookback |-> d] : z \in AllSeries, d \in Lookbacks}
NoFrame == [series |-> NoSeries, lookback |-> 0]

\* ParsedRange, tabulated
Parsed == [fr \in Frames |-> ParsedRange(Members(fr.series), fr.lookback)]

\* whether the range query returned nothing, and whether an item failed to parse
FetchOutcome(parsed_data) ==
    [empty |-> parsed_data = <<>>,
     bad |-> \E k \in DOMAIN parsed_data : ~parsed_data[k].ok,
     len |-> Len(parsed_data)]
Fetched == [fr \in Frames |-> FetchOutcome(Parsed[fr])]

Rows(df) == Parsed[df]
\* len(df)
RowCount(df) == Fetched[df].len

\* fetch_training_data once the range query is made: o is its outcome on
\* frame fr
FetchResult(fr, o, fault) ==
    IF fault = "zrange"
    THEN [none |-> TRUE, df |-> NoFrame, calls |-> <<"zrangebyscore">>,
          raised |-> "zrangebyscore"]
    ELSE IF o.empty
    THEN [none |-> TRUE, df |-> NoFrame, calls |-> <<"zrangebyscore">>,
          raised |-> "none"]
    ELSE IF fault = "parse" \/ o.bad
    THEN [none |-> TRUE, df |-> NoFrame, calls |-> <<"zrangebyscore", "loads">>,
          raised |-> "loads"]
    ELSE [none |-> FALSE, df |-> fr,
          calls |-> <<"zrangebyscore", "loads">>, raised |-> "none"]

FetchFrame(fr, fault) == FetchResult(fr, Fetched[fr], fault)

\* fetch_training_data: none is TRUE when it returns None, df is the
\* DataFrame otherwise; calls are the collaborator calls it made, raised
\* the step whose error it caught
fetch_training_data(zsets, venue, symbol, lookback_days, fault) ==
    FetchFrame([series |-> zsets[DataKey(venue, symbol)],
                lookback |-> lookback_days], fault)

\* df[['price', 'volume', 'bid_ask_spread', 'mid_price', 'imbalance']].values
FeatureValues(rows) ==
    [k \in DOMAIN rows |->
        <<rows[k].price, rows[k].volume, rows[k].bid_ask_spread, rows[k].mid_price,
          rows[k].imbalance>>]

\* df.head(n) in the place of df.tail(n): the first n rows
FirstRows(rows, n) ==
    IF Len(rows) <= n THEN rows ELSE SubSeq(rows, 1, n)

\* df.tail(n): the last n rows (all rows when there are fewer)
tail(rows, n) ==
    IF Len(rows) <= n THEN rows ELSE SubSeq(rows, Len(rows) - n + 1, Len(rows))

\* recent_data.tail(self.sequence_length), tabulated over the frames that parse
RecentRows(o, rows) == IF o.bad THEN <<>> ELSE tail(rows, SequenceLength)
Recent == [fr \in Frames |-> RecentRows(Fetched[fr], Parsed[fr])]

\* ------------------------------------------------------------ MinMaxScaler
\* MinMaxScaler(feature_range=(0, 1)) before any fit
NotFitted == [fitted |-> FALSE]

Columns(data) == IF data = <<>> THEN {} ELSE DOMAIN data[1]

RMin(x, y) == IF RLess(y, x) THEN y ELSE x
RMax(x, y) == IF RLess(x, y) THEN y ELSE x

\* minimum and maximum of column c over rows lo..hi of data (lo <= hi)
RECURSIVE ColMin(_, _, _, _)
ColMin(data, c, lo, hi) ==
    IF lo = hi THEN data[lo][c]
    ELSE LET mid == (lo + hi) \div 2
         IN  RMin(ColMin(data, c, lo, mid), ColMin(data, c, mid + 1, hi))
RECURSIVE ColMax(_, _, _, _)
ColMax(data, c, lo, hi) ==
    IF lo = hi THEN data[lo][c]
    ELSE LET mid == (lo + hi) \div 2
         IN  RMax(ColMax(data, c, lo, mid), ColMax(data, c, mid + 1, hi))

\* fit: the per-column minimum and maximum of data (data is not empty)
Fit(data) ==
    [fitted |-> TRUE,
     data_min |-> [c \in Columns(data) |-> ColMin(data, c, 1, Len(data))],
     data_max |-> [c \in Columns(data) |-> ColMax(data, c, 1, Len(data))]]

\* data_max - data_min of column c, 1 where that is 0
Range(sc, c) ==
    LET r == RSub(sc.data_max[c], sc.data_min[c])
    IN  IF r = R(0) THEN R(1) ELSE r

\* transform with a fitted scaler: (v - min) / (max - min), column by column
Transform(sc, data) ==
    [k \in DOMAIN data |->
        [c \in DOMAIN data[k] |->
            RDiv(RSub(data[k][c], sc.data_min[c]), Range(sc, c))]]

\* inverse_transform of one row with a fitted scaler
InverseTransform(sc, row) ==
    [c \in DOMAIN row |-> RAdd(RMul(row[c], Range(sc, c)), sc.data_min[c])]

\* ------------------------------------------------------------ prepare_data
\* the loop of prepare_data taking each target from the last row of its window
WindowsTargetInside(scaled_data, S) ==
    [X |-> [k \in 1..(Len(scaled_data) - S) |-> SubSeq(scaled_data, k, k + S - 1)],
     y |-> [k \in 1..(Len(scaled_data) - S) |-> scaled_data[k + S - 1][1]]]

\* the loop of prepare_data over scaled_data with sequence length S
Windows(scaled_data, S) ==
    [X |-> [k \in 1..(Len(scaled_data) - S) |-> SubSeq(scaled_data, k, k + S - 1)],
     y |-> [k \in 1..(Len(scaled_data) - S) |-> scaled_data[k + S][1]]]

\* prepare_data after the scaler's fit: the scaler it leaves behind and the
\* windows over the scaled data
ScaleAndWindow(sc, data, S) == [scaler |-> sc, w |-> Windows(Transform(sc, data), S)]

FitScaleAndWindow(data, S) == ScaleAndWindow(Fit(data), data, S)

\* prepare_data on a frame with rows `rows` (not empty) of an instance whose
\* sequence length is S: [scaler, w], w the windows [X, y]
prepare_data(rows, S) == FitScaleAndWindow(FeatureValues(rows), S)

\* prepare_data with self.sequence_length, tabulated over the frames train
\* hands to it
Trainable(fr, o) == fr.lookback = TrainLookbackDays /\ ~o.empty /\ ~o.bad
Prepared ==
    [fr \in {g \in Frames : Trainable(g, Fetched[g])} |->
        prepare_data(Rows(fr), SequenceLength)]

\* ------------------------------------------------------ _calculate_confidence
\* the thresholds taken inclusively
ConfidenceInclusive(percent_change) ==
    LET abs_change == RAbs(percent_change)
    IN  IF ~RLess(abs_change, R(5)) THEN "low"
        ELSE IF ~RLess(abs_change, R(2)) THEN "medium"
        ELSE "high"

\* the thresholds applied to percent_change itself, not to its magnitude
ConfidenceSigned(percent_change) ==
    IF RLess(R(5), percent_change) THEN "low"
    ELSE IF RLess(R(2), percent_change) THEN "medium"
    ELSE "high"

_calculate_confidence(percent_change) ==
    LET abs_change == RAbs(percent_change)
    IN  IF RLess(R(5), abs_change) THEN "low"
        ELSE IF RLess(R(2), abs_change) THEN "medium"
        ELSE "high"

\* json.dumps of a dictionary
json_dumps(d) == [kind |-> "json", doc |-> d]


\* ------------------------------------------------------------------- store
\* SETEX key 86400 value in the place of SET: the value, expiring in a day
SetForADay(store, key, value) ==
    [store EXCEPT ![key] = [val |-> value, ttl |-> 60 * SecondsPerMinute * 24]]

\* SET key value: the value, and no expiry whatever the key had before
Set(store, key, value) == [store EXCEPT ![key] = [val |-> value, ttl |-> NoTTL]]

\* EXPIRE key seconds (seconds > 0): no effect on a key that does not exist
Expire(store, key, seconds) ==
    IF store[key] = NoKey THEN store
    ELSE [store EXCEPT ![key].ttl = seconds]

\* ------------------------------------------------------------------ engine
NoModel == [origin |-> "none", fits |-> 0, samples |-> 0]

\* the parameters model.fit leaves behind: one more completed fit
FittedModel(mdl, X_train) ==
    [origin |-> "fit", fits |-> mdl.fits + 1, samples |-> Len(X_train)]

\* ------------------------------------------------------------------- train
\* the guard of train without its margin of 10 rows
InsufficientWithoutMargin(n) == n < SequenceLength

\* len(df) < self.sequence_length + 10
InsufficientToTrain(n) == n < SequenceLength + TrainMargin

\* int(len(X) * 0.8) rounding to the nearest integer
SplitIdxRounded(n) == (8 * n + 5) \div 10

\* int(len(X) * 0.8)
SplitIdx(n) == (8 * n) \div 10

\* lines 121-123: the training and the validation windows and targets
SplitAt(X, y, split_idx) ==
    [X_train |-> SubSeq(X, 1, split_idx), X_val |-> SubSeq(X, split_idx + 1, Len(X)),
     y_train |-> SubSeq(y, 1, split_idx), y_val |-> SubSeq(y, split_idx + 1, Len(y))]

TrainValSplit(X, y) == SplitAt(X, y, SplitIdx(Len(X)))

\* train from line 118 on: df has rows rows, pd is what prepare_data(df)
\* gives. fault: the step that raises, if reached; hist: what fit reports;
\* reset: whether a fit_transform that raises has already dropped the old
\* scaler state. result "raised": the error left train.
TrainOn(sc, mdl, store, venue, symbol, fault, hist, reset, f, rows, pd) ==
    LET X_train == TrainValSplit(pd.w.X, pd.w.y).X_train
        training_metrics ==
            [venue |-> venue, symbol |-> symbol,
             loss |-> hist[1], val_loss |-> hist[2],
             timestamp |-> Now, data_points |-> Len(pd.w.X)]
        metrics_key == MetricsKey(venue, symbol)
    IN  IF fault = "scale"
        THEN [result |-> "raised",
              scaler |-> IF reset THEN NotFitted ELSE sc,
              model |-> mdl, kv |-> store,
              rows |-> rows, calls |-> f.calls \o <<"fit_transform">>,
              raised |-> "fit_transform"]
        ELSE IF fault = "fit"
        THEN [result |-> "False", scaler |-> pd.scaler, model |-> mdl, kv |-> store,
              rows |-> rows, calls |-> f.calls \o <<"fit_transform", "fit">>,
              raised |-> "fit"]
        ELSE IF fault = "set"
        THEN [result |-> "False", scaler |-> pd.scaler,
              model |-> FittedModel(mdl, X_train), kv |-> store,
              rows |-> rows, calls |-> f.calls \o <<"fit_transform", "fit", "set">>,
              raised |-> "set"]
        ELSE [result |-> "True", scaler |-> pd.scaler,
              model |-> FittedModel(mdl, X_train),
              kv |-> Set(store, metrics_key, json_dumps(training_metrics)),
              rows |-> rows, calls |-> f.calls \o <<"fit_transform", "fit", "set">>,
              raised |-> "none"]

\* train from line 114 on: f is what fetch_training_data returned
TrainFetched(sc, mdl, store, venue, symbol, fault, hist, reset, f) ==
    IF f.none
    THEN [result |-> "False", scaler |-> sc, model |-> mdl, kv |-> store,
          rows |-> -1, calls |-> f.calls, raised |-> f.raised]
    ELSE IF InsufficientToTrain(RowCount(f.df))
    THEN [result |-> "False", scaler |-> sc, model |-> mdl, kv |-> store,
          rows |-> RowCount(f.df), calls |-> f.calls, raised |-> f.raised]
    ELSE TrainOn(sc, mdl, store, venue, symbol, fault, hist, reset, f,
                 RowCount(f.df), Prepared[f.df])

\* train(venue, symbol) on an instance with scaler sc and model mdl:
\* [result, scaler, model, kv, rows, calls, raised]
train(sc, mdl, store, zsets, venue, symbol, fault, hist, reset) ==
    TrainFetched(sc, mdl, store, venue, symbol, fault, hist, reset,
                 fetch_training_data(zsets, venue, symbol, TrainLookbackDays, fault))

\* ------------------------------------------------------------ predict_next
\* len(recent_data) < self.sequence_length
InsufficientToPredict(n) == n < SequenceLength

\* the expiry with the horizon's minutes taken for seconds
ExpiryInMinutes(time_horizon_minutes) == time_horizon_minutes

\* 60 * time_horizon_minutes
ExpirySeconds(time_horizon_minutes) == SecondsPerMinute * time_horizon_minutes

\* the Prediction dictionary with the change taken relative to the predicted
\* price
PredictionDocOverPredicted(venue, symbol, h, current_price, predicted_price) ==
    LET price_change == RSub(predicted_price, current_price)
        percent_change == RMul(RDiv(price_change, predicted_price), R(100))
    IN  [venue |-> venue, symbol |-> symbol,
         current_price |-> current_price,
         predicted_price |-> predicted_price,
         price_change |-> price_change,
         percent_change |-> percent_change,
         prediction_time |-> Now,
         time_horizon_minutes |-> h,
         confidence |-> _calculate_confidence(percent_change)]

\* lines 179-192: the Prediction dictionary
PredictionDoc(venue, symbol, h, current_price, predicted_price) ==
    LET price_change == RSub(predicted_price, current_price)
        percent_change == RMul(RDiv(price_change, current_price), R(100))
    IN  [venue |-> venue, symbol |-> symbol,
         current_price |-> current_price,
         predicted_price |-> predicted_price,
         price_change |-> price_change,
         percent_change |-> percent_change,
         prediction_time |-> Now,
         time_horizon_minutes |-> h,
         confidence |-> _calculate_confidence(percent_change)]

\* lines 174-192: the Prediction built from the window's last row and the
\* engine's output, inverse-transformed with scaler sc
Prediction(sc, recent_data, predicted_scaled, venue, symbol, h) ==
    PredictionDoc(venue, symbol, h, recent_data[Len(recent_data)].price,
        InverseTransform(sc, <<predicted_scaled, R(0), R(0), R(0), R(0)>>)[1])

\* the timestamps of rows
Stamps(rows) == [k \in DOMAIN rows |-> rows[k].timestamp]

\* predict_next from line 167 on, up to and including the SET: window is the
\* rows handed to transform, prediction the dictionary of lines 182-192
PredictOn(sc, store, venue, symbol, fault, f, rows, window, prediction) ==
    LET Failed(calls, step) ==
            [next |-> "return", result |-> "None", value |-> NoVal, kv |-> store,
             rows |-> rows, calls |-> calls, window |-> window, raised |-> step]
    IN  IF ~sc.fitted \/ fault = "transform"
        THEN Failed(f.calls \o <<"transform">>, "transform")
        ELSE IF fault = "predict"
        THEN Failed(f.calls \o <<"transform", "predict">>, "predict")
        ELSE IF fault = "set"
        THEN Failed(f.calls \o <<"transform", "predict", "inverse_transform", "set">>,
                    "set")
        ELSE [next |-> "expire", result |-> "pending",
              value |-> [kind |-> "prediction", doc |-> prediction],
              kv |-> Set(store, PredictionKey(venue, symbol), json_dumps(prediction)),
              rows |-> rows,
              calls |-> f.calls \o <<"transform", "predict", "inverse_transform", "set">>,
              window |-> window, raised |-> "none"]

\* predict_next from line 160 on: f is what fetch_training_data returned
PredictFetched(sc, store, venue, symbol, h, fault, out, f) ==
    IF f.none
    THEN [next |-> "return", result |-> "None", value |-> NoVal, kv |-> store,
          rows |-> -1, calls |-> f.calls, window |-> <<>>, raised |-> f.raised]
    ELSE IF InsufficientToPredict(RowCount(f.df))
    THEN [next |-> "return", result |-> "None", value |-> NoVal, kv |-> store,
          rows |-> RowCount(f.df), calls |-> f.calls, window |-> <<>>,
          raised |-> f.raised]
    ELSE PredictOn(sc, store, venue, symbol, fault, f, RowCount(f.df),
                   Stamps(Recent[f.df]),
                   Prediction(sc, Recent[f.df], out, venue, symbol, h))

\* predict_next(venue, symbol, h) up to and including the store's SET.
\* next "expire": the SET is done and the EXPIRE is still to come;
\* next "return": predict_next has returned None. raised: the step that
\* raised ("transform" also when the scaler was never fitted). window: the
\* timestamps of the rows handed to the scaler's transform.
predict_next(sc, mdl, store, zsets, venue, symbol, h, fault, out) ==
    PredictFetched(sc, store, venue, symbol, h, fault, out,
                   fetch_training_data(zsets, venue, symbol, PredictLookbackDays, fault))

\* ------------------------------------------------------------- constructor
\* the attributes __init__ has assigned before it builds or loads the model
AssignedBeforeModel == {"logger", "redis_client", "scaler"}
\* the attributes of a constructed instance
AllAttributes == AssignedBeforeModel \cup {"model", "sequence_length"}

\* _build_model on an instance whose assigned attributes are attrs:
\* it reads self.sequence_length for the input shape
_build_model(attrs) ==
    IF "sequence_length" \in attrs
    THEN [raised |-> FALSE, model |-> [origin |-> "built", fits |-> 0, samples |-> 0]]
    ELSE [raised |-> TRUE, model |-> NoModel]

\* _load_model(path); loads: whether tf.keras.models.load_model succeeds
_load_model(attrs, path, loads) ==
    IF loads
    THEN [raised |-> FALSE, model |-> [origin |-> "loaded", fits |-> 0, samples |-> 0]]
    ELSE _build_model(attrs)

\* __init__(redis_client, model_path): the model expression of line 17 is
\* evaluated with the attributes assigned so far
__init__(model_path, loads) ==
    LET m == IF model_path = None
             THEN _build_model(AssignedBeforeModel)
             ELSE _load_model(AssignedBeforeModel, model_path, loads)
    IN  IF m.raised
        THEN [raised |-> TRUE, attrs |-> AssignedBeforeModel, model |-> NoModel]
        ELSE [raised |-> FALSE, attrs |-> AllAttributes, model |-> m.model]

\* ------------------------------------------------------------------- state
Instances == {"m1", "m2"}

VARIABLES
    series,    \* the store's sorted sets: data key -> [n, base, spacing] of Members
    kv,        \* the store's plain keys: key -> [val, ttl]
    use,       \* what the callers of this run use: instances, venue arguments,
               \* and the outputs the engine's predict can give
    status,    \* instance -> "uninitialized" | "ready" | "raised"
    attrs,     \* instance -> the attributes assigned on it
    scaler,    \* instance -> self.scaler's state
    model,     \* instance -> self.model's parameters
    pc,        \* instance -> "idle" | "expire" (predict_next between SET and EXPIRE)
    last,      \* instance -> the call in progress or just returned
    trained,   \* instance -> whether a train call on it has returned True
    win,       \* the windowing specification's input and output
    fit_of,    \* instance -> the data keys of the train calls that last fitted
               \* its scaler and its model
    fn         \* the call of a specification of one function: its arguments
               \* and its result

vars ==
    <<series, kv, use, status, attrs, scaler, model, pc, last, trained, win, fit_of, fn>>

\* no call has been made, or the store has changed since the call returned.
\* pre: what the call's key (the prediction key of predict_next, the metrics
\* key of train) held when the call was made;
\* fault: the fault still to come in a call in progress.
NoCall ==
    [op |-> "none", venue |-> <<>>, symbol |-> <<>>, h |-> 0,
     result |-> "none", value |-> NoVal, rows |-> -1, calls |-> <<>>,
     window |-> <<>>, raised |-> "none", fault |-> "none", pre |-> NoKey]

\* no train call has fitted the scaler, none the model
NoData == [ns |-> "none"]
NoFit == [scaler |-> NoData, model |-> NoData]

\* what fit_of is after a train call on data_key that ended as r: the call
\* has fitted the scaler when it got past prepare_data, and the model when
\* it got past the engine's fit
FitOf(before, data_key, r) ==
    [scaler |-> IF r.result = "True" \/ r.raised \in {"fit", "set"} THEN data_key
                ELSE IF r.scaler = NotFitted THEN NoData
                ELSE before.scaler,
     model |-> IF r.result = "True" \/ r.raised = "set" THEN data_key
               ELSE before.model]

\* no function is under check
NoFn == [op |-> "none"]

NoWin == [S |-> 0, rows |-> <<>>, done |-> FALSE, X |-> <<>>, y |-> <<>>]

\* the series of the venues in vs are any of their choices; no other data
\* key exists; no metrics or prediction key exists
InitStore(vs) ==
    /\ series \in [DataKeys -> AllSeries]
    /\ \A k \in DataKeys :
          IF \E v \in vs, s \in Symbols : k = DataKey(v, s)
          THEN series[k] \in SeriesChoices(k)
          ELSE series[k] = NoSeries
    /\ kv = [k \in KvKeys |-> NoKey]

InitInstances ==
    /\ status = [i \in Instances |-> "uninitialized"]
    /\ attrs = [i \in Instances |-> {}]
    /\ scaler = [i \in Instances |-> NotFitted]
    /\ model = [i \in Instances |-> NoModel]
    /\ pc = [i \in Instances |-> "idle"]
    /\ last = [i \in Instances |-> NoCall]
    /\ trained = [i \in Instances |-> FALSE]
    /\ fit_of = [i \in Instances |-> NoFit]

\* one instance, called with two spellings of one venue
Init ==
    /\ use = [instances |-> {"m1"},
              venues |-> {<<"B", "N">>, <<"b", "n">>},
              outputs |-> {<<11, 10>>}]
    /\ InitStore(use.venues)
    /\ InitInstances
    /\ win = NoWin
    /\ fn = NoFn

\* ----------------------------------------------------------------- actions
\* PricePredictionModel(redis_client, model_path) returning or raising as r
Constructed(i, r) ==
    /\ status' = [status EXCEPT ![i] = IF r.raised THEN "raised" ELSE "ready"]
    /\ attrs' = [attrs EXCEPT ![i] = r.attrs]
    /\ model' = [model EXCEPT ![i] = r.model]
    /\ scaler' = [scaler EXCEPT ![i] = NotFitted]
    /\ last' = [last EXCEPT ![i] =
                  [NoCall EXCEPT !.op = "__init__",
                                 !.result = IF r.raised THEN "raised" ELSE "ready",
                                 !.raised = IF r.raised THEN "_build_model"
                                            ELSE "none"]]
    /\ trained' = [trained EXCEPT ![i] = FALSE]
    /\ fit_of' = [fit_of EXCEPT ![i] = NoFit]
    /\ UNCHANGED <<series, kv, use, pc, win, fn>>

\* PricePredictionModel(redis_client, model_path)
Construct(i, model_path, loads) ==
    /\ i \in use.instances
    /\ status[i] \in {"uninitialized", "raised"}
    /\ Constructed(i, __init__(model_path, loads))

\* train(venue, symbol) on instance i ending as r
Trained(i, venue, symbol, r) ==
    /\ scaler' = [scaler EXCEPT ![i] = r.scaler]
    /\ model' = [model EXCEPT ![i] = r.model]
    /\ kv' = r.kv
    /\ last' = [last EXCEPT ![i] =
                  [NoCall EXCEPT !.op = "train", !.venue = venue,
                                 !.symbol = symbol,
                                 !.result = r.result, !.rows = r.rows,
                                 !.calls = r.calls, !.raised = r.raised,
                                 !.pre = kv[MetricsKey(venue, symbol)]]]
    /\ trained' = [trained EXCEPT ![i] = trained[i] \/ r.result = "True"]
    /\ fit_of' = [fit_of EXCEPT ![i] = FitOf(fit_of[i], DataKey(venue, symbol), r)]
    /\ UNCHANGED <<series, use, status, attrs, pc, win, fn>>

\* model.train(venue, symbol)
Train(i, venue, symbol, fault, hist, reset) ==
    /\ i \in use.instances
    /\ status[i] = "ready"
    /\ pc[i] = "idle"
    /\ model[i].fits < MaxFits
    /\ reset => fault = "scale"
    /\ Trained(i, venue, symbol,
               train(scaler[i], model[i], kv, series, venue, symbol, fault, hist,
                     reset))

\* predict_next scaling its window with fit_transform in the place of
\* transform, having got as far as r
PredictedRefitting(i, venue, symbol, h, fault, r) ==
    /\ kv' = r.kv
    /\ pc' = [pc EXCEPT ![i] = IF r.next = "expire" THEN "expire" ELSE "idle"]
    /\ last' = [last EXCEPT ![i] =
                  [NoCall EXCEPT !.op = "predict_next", !.venue = venue,
                                 !.symbol = symbol, !.h = h,
                                 !.result = r.result, !.value = r.value,
                                 !.rows = r.rows, !.calls = r.calls,
                                 !.window = r.window, !.raised = r.raised,
                                 !.fault = IF r.next = "expire" /\ fault = "expire"
                                           THEN "expire" ELSE "none",
                                 !.pre = kv[PredictionKey(venue, symbol)]]]
    /\ scaler' = [scaler EXCEPT ![i] =
                    IF r.rows < SequenceLength THEN @
                    ELSE Fit(FeatureValues(
                             Recent[[series |-> series[DataKey(venue, symbol)],
                                     lookback |-> PredictLookbackDays]]))]
    /\ UNCHANGED <<series, use, status, attrs, model, trained, win, fit_of, fn>>

\* predict_next(venue, symbol, h) on instance i having got as far as r
Predicted(i, venue, symbol, h, fault, r) ==
    /\ kv' = r.kv
    /\ pc' = [pc EXCEPT ![i] = IF r.next = "expire" THEN "expire" ELSE "idle"]
    /\ last' = [last EXCEPT ![i] =
                  [NoCall EXCEPT !.op = "predict_next", !.venue = venue,
                                 !.symbol = symbol, !.h = h,
                                 !.result = r.result, !.value = r.value,
                                 !.rows = r.rows, !.calls = r.calls,
                                 !.window = r.window, !.raised = r.raised,
                                 !.fault = IF r.next = "expire" /\ fault = "expire"
                                           THEN "expire" ELSE "none",
                                 !.pre = kv[PredictionKey(venue, symbol)]]]
    /\ UNCHANGED <<series, use, status, attrs, scaler, model, trained, win, fit_of, fn>>

\* model.predict_next(venue, symbol, h), up to and including the SET
PredictNext(i, venue, symbol, h, fault, out) ==
    /\ i \in use.instances
    /\ status[i] = "ready"
    /\ pc[i] = "idle"
    /\ Predicted(i, venue, symbol, h, fault,
                 predict_next(scaler[i], model[i], kv, series, venue, symbol, h,
                              fault, out))

\* the EXPIRE of call c, raising or not, and the return
Expired(i, c, raises) ==
    /\ kv' = IF raises THEN kv
             ELSE Expire(kv, PredictionKey(c.venue, c.symbol), ExpirySeconds(c.h))
    /\ pc' = [pc EXCEPT ![i] = "idle"]
    /\ last' = [last EXCEPT ![i] =
                  [c EXCEPT !.result = IF raises THEN "None" ELSE "Prediction",
                            !.value = IF raises THEN NoVal ELSE c.value,
                            !.calls = c.calls \o <<"expire">>,
                            !.raised = IF raises THEN "expire" ELSE "none",
                            !.fault = "none"]]
    /\ UNCHANGED <<series, use, status, attrs, scaler, model, trained, win, fit_of, fn>>

\* the rest of predict_next: the EXPIRE and the return
PredictExpire(i) ==
    /\ i \in use.instances
    /\ pc[i] = "expire"
    /\ Expired(i, last[i], last[i].fault = "expire")

\* the store drops a key whose time-to-live has run out
StoreExpiry(key) ==
    /\ kv[key] # NoKey
    /\ kv[key].ttl > 0
    /\ kv' = [kv EXCEPT ![key] = NoKey]
    /\ last' = [i \in Instances |-> IF pc[i] = "idle" THEN NoCall ELSE last[i]]
    /\ UNCHANGED <<series, use, status, attrs, scaler, model, pc, trained, win, fit_of,
                   fn>>

\* save_model(path) on instance i, self.model.save raising or not
SaveModel(i, raises) ==
    /\ i \in use.instances
    /\ status[i] = "ready"
    /\ pc[i] = "idle"
    /\ last' = [last EXCEPT ![i] =
                  [NoCall EXCEPT !.op = "save_model",
                                 !.result = IF raises THEN "False" ELSE "True",
                                 !.calls = <<"save">>,
                                 !.raised = IF raises THEN "save" ELSE "none"]]
    /\ UNCHANGED <<series, kv, use, status, attrs, scaler, model, pc, trained, win,
                   fit_of, fn>>

\* fetch_training_data(venue, symbol, lookback_days) on instance i returning f
FetchReturned(i, venue, symbol, f) ==
    /\ last' = [last EXCEPT ![i] =
                  [NoCall EXCEPT !.op = "fetch_training_data", !.venue = venue,
                                 !.symbol = symbol,
                                 !.result = IF f.none THEN "None" ELSE "DataFrame",
                                 !.rows = IF f.none THEN -1 ELSE RowCount(f.df),
                                 !.calls = f.calls, !.raised = f.raised]]
    /\ UNCHANGED <<series, kv, use, status, attrs, scaler, model, pc, trained, win,
                   fit_of, fn>>

\* model.fetch_training_data(venue, symbol, lookback_days)
FetchTrainingData(i, venue, symbol, lookback_days, fault) ==
    /\ i \in use.instances
    /\ status[i] = "ready"
    /\ pc[i] = "idle"
    /\ FetchReturned(i, venue, symbol,
                     fetch_training_data(series, venue, symbol, lookback_days, fault))

Next ==
    \/ \E i \in Instances, p \in ModelPaths, loads \in BOOLEAN : Construct(i, p, loads)
    \/ \E i \in Instances, v \in use.venues, s \in Symbols, f \in TrainFaults,
          hist \in Histories, reset \in BOOLEAN : Train(i, v, s, f, hist, reset)
    \/ \E i \in Instances, v \in use.venues, s \in Symbols, h \in Horizons,
          f \in PredictFaults, out \in use.outputs : PredictNext(i, v, s, h, f, out)
    \/ \E i \in Instances : PredictExpire(i)
    \/ \E k \in PredictionKeys : StoreExpiry(k)

Spec == Init /\ [][Next]_vars

\* train and predict_next together with the operations that write nothing
NextOps ==
    \/ Next
    \/ \E i \in Instances, raises \in BOOLEAN : SaveModel(i, raises)
    \/ \E i \in Instances, v \in use.venues, s \in Symbols, d \in Lookbacks,
          f \in {"none", "zrange", "parse"} : FetchTrainingData(i, v, s, d, f)

SpecOps == Init /\ [][NextOps]_vars

\* one instance, called with one spelling of one venue, whose engine's
\* predict can give any of EngineOutputs
InitOutputs ==
    /\ use = [instances |-> {"m1"}, venues |-> {<<"B", "N">>},
              outputs |-> EngineOutputs]
    /\ InitStore(use.venues)
    /\ InitInstances
    /\ win = NoWin
    /\ fn = NoFn

SpecOutputs == InitOutputs /\ [][Next]_vars

\* the series of the venues in vs hold just enough rows for train, a minute
\* apart; no other data key exists; no metrics or prediction key exists
InitTrainableStore(vs) ==
    /\ series = [k \in DataKeys |->
                    IF \E v \in vs, s \in Symbols : k = DataKey(v, s)
                    THEN CHOOSE d \in SeriesChoices(k) :
                             d.n = SequenceLength + TrainMargin /\ d.spacing = Dense
                    ELSE NoSeries]
    /\ kv = [k \in KvKeys |-> NoKey]

\* one instance, called for two venues that both have data
InitTwoSeries ==
    /\ use = [instances |-> {"m1"}, venues |-> {<<"B", "N">>, <<"K", "R">>},
              outputs |-> {<<11, 10>>}]
    /\ InitTrainableStore(use.venues)
    /\ InitInstances
    /\ win = NoWin
    /\ fn = NoFn

SpecTwoSeries == InitTwoSeries /\ [][Next]_vars

\* ------------------------------------------------ two instances, two venues
\* the venue each instance is used for
VenueOf == [i \in Instances |-> IF i = "m1" THEN <<"B", "N">> ELSE <<"K", "R">>]

\* two instances, each called for its own venue; both venues have data
InitPairs ==
    /\ use = [instances |-> Instances, venues |-> {VenueOf[i] : i \in Instances},
              outputs |-> {<<11, 10>>}]
    /\ InitTrainableStore(use.venues)
    /\ InitInstances
    /\ win = NoWin
    /\ fn = NoFn

\* the calls of the two instances, each for its own venue, in any order; of
\* the faults, the engine's fit and the store's EXPIRE
NextPairs ==
    \/ \E i \in Instances, loads \in BOOLEAN : Construct(i, "saved.h5", loads)
    \/ \E i \in Instances, s \in Symbols, f \in {"none", "fit"}, hist \in Histories :
          Train(i, VenueOf[i], s, f, hist, FALSE)
    \/ \E i \in Instances, s \in Symbols, f \in {"none", "expire"},
          out \in use.outputs : PredictNext(i, VenueOf[i], s, DefaultHorizon, f, out)
    \/ \E i \in Instances : PredictExpire(i)
    \/ \E k \in PredictionKeys : StoreExpiry(k)

SpecPairs == InitPairs /\ [][NextPairs]_vars

\* ------------------------------------------- prepare_data on small matrices
\* the prices a row of a small feature matrix can have
SmallPrices == {1, 2}

\* a DataFrame row with price p
SmallRow(p) ==
    [ok |-> TRUE, timestamp |-> 0, price |-> R(p), volume |-> R(10),
     bid_ask_spread |-> R(2), mid_price |-> R(p), imbalance |-> RNorm(3, 4)]

\* a DataFrame row with price p and volume v
TaggedRow(p, v) == [SmallRow(p) EXCEPT !.volume = R(v)]

\* the DataFrames of 1..MaxLen rows
SmallFrames ==
    UNION {[1..L -> {SmallRow(p) : p \in SmallPrices}] : L \in 1..MaxLen}

\* no instance is in use and the store is empty; prepare_data is about to be
\* called with any small DataFrame and any sequence length 1..MaxSeq
InitWindows ==
    /\ use = [instances |-> {}, venues |-> {}, outputs |-> {}]
    /\ InitStore(use.venues)
    /\ InitInstances
    /\ win \in {[NoWin EXCEPT !.S = S, !.rows = rows] :
                    S \in 1..MaxSeq, rows \in SmallFrames}
    /\ fn = NoFn

\* X, y = prepare_data(df) returning pd
Windowed(pd) ==
    /\ win' = [win EXCEPT !.done = TRUE, !.X = pd.w.X, !.y = pd.w.y]
    /\ UNCHANGED <<series, kv, use, status, attrs, scaler, model, pc, last, trained,
                   fit_of, fn>>

\* X, y = prepare_data(df)
PrepareData ==
    /\ win.S > 0
    /\ ~win.done
    /\ Windowed(prepare_data(win.rows, win.S))

NextWindows == PrepareData

SpecWindows == InitWindows /\ [][NextWindows]_vars

\* --------------------------------------------- the split of train's windows
\* the DataFrames of 1..MaxSplitRows rows, row j with volume j, with prices
\* rising or falling from row to row
SplitFrames ==
    {[j \in 1..L |-> TaggedRow(IF rising THEN j ELSE L + 1 - j, j)] :
        L \in 1..MaxSplitRows, rising \in BOOLEAN}

\* no instance is in use and the store is empty; lines 114-123 of train are
\* about to run on any of SplitFrames with any sequence length 1..MaxSeq
InitSplit ==
    /\ use = [instances |-> {}, venues |-> {}, outputs |-> {}]
    /\ InitStore(use.venues)
    /\ InitInstances
    /\ win = NoWin
    /\ fn \in {[op |-> "split", S |-> S, rows |-> rows, done |-> FALSE,
                returned |-> FALSE, w |-> Windows(<<>>, S),
                split |-> TrainValSplit(<<>>, <<>>)] :
                    S \in 1..MaxSeq, rows \in SplitFrames}

\* lines 118-123 having given windows w and their split
SplitDone(w, split) ==
    /\ fn' = [fn EXCEPT !.done = TRUE, !.w = w, !.split = split]
    /\ UNCHANGED <<series, kv, use, status, attrs, scaler, model, pc, last, trained,
                   win, fit_of>>

\* lines 118-123 on windows w
SplitOf(w) == SplitDone(w, TrainValSplit(w.X, w.y))

\* lines 114-123 of train with self.sequence_length = fn.S on df = fn.rows
SplitData ==
    /\ fn.op = "split"
    /\ ~fn.done
    /\ IF Len(fn.rows) < fn.S + TrainMargin
       THEN /\ fn' = [fn EXCEPT !.done = TRUE, !.returned = TRUE]
            /\ UNCHANGED <<series, kv, use, status, attrs, scaler, model, pc, last,
                           trained, win, fit_of>>
       ELSE SplitOf(prepare_data(fn.rows, fn.S).w)

NextSplit == SplitData

SpecSplit == InitSplit /\ [][NextSplit]_vars

\* ------------------------------------------- _calculate_confidence alone
\* percent changes within MaxTicks ten-thousandths of 0, 2 and 5, and their
\* negations
PercentChanges ==
    {RNorm(sign * (b * 10000 + t), 10000) :
        sign \in {-1, 1}, b \in {0, 2, 5}, t \in (0 - MaxTicks)..MaxTicks}

\* no instance is in use and the store is empty; _calculate_confidence is
\* about to be called with any of PercentChanges
InitConfidence ==
    /\ use = [instances |-> {}, venues |-> {}, outputs |-> {}]
    /\ InitStore(use.venues)
    /\ InitInstances
    /\ win = NoWin
    /\ fn \in {[op |-> "confidence", percent_change |-> pc0, done |-> FALSE,
                label |-> "none"] : pc0 \in PercentChanges}

\* self._calculate_confidence(percent_change)
CalculateConfidence ==
    /\ fn.op = "confidence"
    /\ ~fn.done
    /\ fn' = [fn EXCEPT !.done = TRUE,
                        !.label = _calculate_confidence(fn.percent_change)]
    /\ UNCHANGED <<series, kv, use, status, attrs, scaler, model, pc, last, trained,
                   win, fit_of>>

NextConfidence == CalculateConfidence

SpecConfidence == InitConfidence /\ [][NextConfidence]_vars

\* ------------------------------------- the feature extraction alone
\* the results of a range query of 1..MaxRecords records, each with resting
\* volume on both sides of the book or on neither
RawRanges ==
    UNION {{[j \in 1..L |->
                [OrderBookRecord(j, L, 100, Dense) EXCEPT
                    !.bid_volume = IF j \in empty THEN 0 ELSE 3,
                    !.ask_volume = IF j \in empty THEN 0 ELSE 1]] :
             empty \in SUBSET (1..L)} : L \in 1..MaxRecords}

\* no instance is in use and the store is empty; lines 73-94 of
\* fetch_training_data are about to run on any of RawRanges
InitExtract ==
    /\ use = [instances |-> {}, venues |-> {}, outputs |-> {}]
    /\ InitStore(use.venues)
    /\ InitInstances
    /\ win = NoWin
    /\ fn \in {[op |-> "extract", raw_data |-> raw, done |-> FALSE, none |-> FALSE,
                rows |-> <<>>] : raw \in RawRanges}

\* lines 78-94 having parsed the items into parsed_data with outcome o: None
\* when an item raised, the DataFrame otherwise
Extracted(parsed_data, o) ==
    /\ fn' = [fn EXCEPT !.done = TRUE, !.none = o.bad,
                        !.rows = IF o.bad THEN <<>> ELSE parsed_data]
    /\ UNCHANGED <<series, kv, use, status, attrs, scaler, model, pc, last, trained,
                   win, fit_of>>

\* lines 78-94 on parsed_data
ExtractedFrom(parsed_data) == Extracted(parsed_data, FetchOutcome(parsed_data))

\* lines 73-94 of fetch_training_data on raw_data = fn.raw_data
ExtractFeatures ==
    /\ fn.op = "extract"
    /\ ~fn.done
    /\ ExtractedFrom(ParseItems(fn.raw_data))

NextExtract == ExtractFeatures

SpecExtract == InitExtract /\ [][NextExtract]_vars

\* ------------------------------------------------------------ properties
\* this step is a call of train on instance i, from its entry to its return
\* or raise
TrainCall(i) ==
    /\ last'[i].op = "train"
    /\ status[i] = "ready"
    /\ pc[i] = "idle"
    /\ \A j \in Instances \ {i} :
          <<last[j], scaler[j], model[j], status[j], pc[j]>>' =
          <<last[j], scaler[j], model[j], status[j], pc[j]>>

\* this step is a call of predict_next on instance i, from its entry up to
\* its SET or to its return before that
PredictCall(i) ==
    /\ last'[i].op = "predict_next"
    /\ status[i] = "ready"
    /\ pc[i] = "idle"
    /\ \A j \in Instances \ {i} :
          <<last[j], scaler[j], model[j], status[j], pc[j]>>' =
          <<last[j], scaler[j], model[j], status[j], pc[j]>>

\* instance i's last call was op and has returned result
Returned(i, op, result) == last[i].op = op /\ last[i].result = result

\* C1: a train call that returns False leaves the instance's scaler state and
\* model parameters as they were before the call and writes no
\* training-metrics key.
FailedTrainChangesNothing ==
    [][\A i \in Instances :
          TrainCall(i) /\ last'[i].result = "False" =>
              /\ scaler'[i] = scaler[i]
              /\ model'[i] = model[i]
              /\ \A k \in MetricsKeys : kv'[k] = kv[k]]_vars

\* C2: when predict_next has returned None, the store's value and expiry for
\* the call's prediction key are what they were when the call began.
FailedPredictKeepsKey ==
    \A i \in Instances :
        Returned(i, "predict_next", "None") =>
            kv[PredictionKey(last[i].venue, last[i].symbol)] = last[i].pre

\* C3: no error leaves train or predict_next, whichever single collaborator
\* step fails: train returns False and predict_next returns None.
NoErrorEscapes ==
    \A i \in Instances :
        /\ last[i].op = "train" => last[i].result \in {"True", "False"}
        /\ last[i].op = "predict_next" =>
              last[i].result \in {"pending", "Prediction", "None"}

\* C4: construction ends in the Ready state, with or without a model_path and
\* whether or not the load succeeds: no error leaves the constructor.
ConstructionEndsReady ==
    \A i \in Instances :
        last[i].op = "__init__" =>
            /\ status[i] = "ready"
            /\ last[i].result = "ready"
            /\ attrs[i] = AllAttributes

\* C5: predict_next writes a prediction key and returns a Prediction only on
\* an instance on which an earlier train call returned True.
PredictionOnlyAfterTraining ==
    \A i \in Instances :
        last[i].op = "predict_next" /\ last[i].result \in {"pending", "Prediction"} =>
            trained[i]

\* C6: with no data or fewer than sequence_length + 10 rows train returns
\* False without fit_transform, without the engine's fit and without a store
\* write; with sequence_length + 10 rows or more it goes on to prepare_data
\* and, unless that raises, to the engine's fit.
TrainDataGuard ==
    [][\A i \in Instances :
          TrainCall(i) =>
              IF last'[i].rows < SequenceLength + TrainMargin
              THEN /\ last'[i].result = "False"
                   /\ \A k \in DOMAIN last'[i].calls :
                         last'[i].calls[k] \notin {"fit_transform", "fit", "set"}
                   /\ scaler'[i] = scaler[i]
                   /\ model'[i] = model[i]
                   /\ kv' = kv
              ELSE /\ \E k \in DOMAIN last'[i].calls :
                         last'[i].calls[k] = "fit_transform"
                   /\ last'[i].raised # "fit_transform" =>
                         \E k \in DOMAIN last'[i].calls : last'[i].calls[k] = "fit"
                   /\ last'[i].raised = "none" => model'[i].fits = model[i].fits + 1]_vars

\* C6 witness: train has returned False on sequence_length + 10 - 1 rows
TrainOneRowShort ==
    \E i \in Instances :
        /\ Returned(i, "train", "False")
        /\ last[i].rows = SequenceLength + TrainMargin - 1

\* the timestamps of the last S of rows (<<>> when there are fewer than S)
LastStamps(rows, S) ==
    IF Len(rows) < S THEN <<>>
    ELSE [k \in 1..S |-> rows[Len(rows) - S + k].timestamp]

\* for each range of stored records a fetch can find, the timestamps of its
\* last sequence_length rows
LastStored == [fr \in Frames |-> LastStamps(Parsed[fr], SequenceLength)]

\* the timestamps of the last sequence_length rows that the range query of
\* predict_next(venue, symbol) finds in the store
StoredRecent(venue, symbol) ==
    LastStored[[series |-> series[[ns |-> "orderbook:summary",
                                   venue |-> Lower(venue), symbol |-> Lower(symbol)]],
                lookback |-> PredictLookbackDays]]

\* C7: with no data or fewer than sequence_length rows predict_next returns
\* None without the scaler's transform, the engine's predict or a store SET
\* or EXPIRE; with sequence_length rows or more its window is exactly the last
\* sequence_length rows fetched.
PredictDataGuard ==
    [][\A i \in Instances :
          PredictCall(i) =>
              IF last'[i].rows < SequenceLength
              THEN /\ last'[i].result = "None"
                   /\ \A k \in DOMAIN last'[i].calls :
                         last'[i].calls[k] \notin {"transform", "predict", "set", "expire"}
                   /\ pc'[i] = "idle"
                   /\ kv' = kv
              ELSE /\ last'[i].window =
                         StoredRecent(last'[i].venue, last'[i].symbol)
                   /\ \E k \in DOMAIN last'[i].calls : last'[i].calls[k] = "transform"]_vars

\* C7 witness: predict_next has returned a Prediction made from more rows than
\* sequence_length
PredictedFromLongerData ==
    \E i \in Instances :
        /\ Returned(i, "predict_next", "Prediction")
        /\ last[i].rows > SequenceLength
        /\ Len(last[i].window) = SequenceLength

\* C8: when predict_next(venue, symbol, h) has returned a Prediction, the key
\* ml:predictions:<lowercase venue>:<lowercase symbol> holds that Prediction
\* with a time-to-live of exactly 60 * h seconds, whatever it held before.
PredictionStoredWithTTL ==
    \A i \in Instances :
        Returned(i, "predict_next", "Prediction") =>
            /\ kv[[ns |-> "ml:predictions", venue |-> Lower(last[i].venue),
                   symbol |-> Lower(last[i].symbol)]] =
                  [val |-> [kind |-> "json", doc |-> last[i].value.doc],
                   ttl |-> 60 * last[i].h]
            /\ last[i].value.doc.venue = last[i].venue
            /\ last[i].value.doc.time_horizon_minutes = last[i].h

\* C8 witness: a Prediction has been returned for a key that held an earlier
\* prediction with another time-to-live
PredictionReplacedEarlier ==
    \E i \in Instances :
        /\ Returned(i, "predict_next", "Prediction")
        /\ last[i].pre # NoKey
        /\ last[i].pre.ttl > 0
        /\ last[i].pre.ttl # 60 * last[i].h

\* C9: in every state of the store, a prediction key that is present has an
\* expiry.
PredictionKeysExpire ==
    \A k \in PredictionKeys : kv[k] # NoKey => kv[k].ttl > 0

\* the scaled matrix prepare_data cuts into windows
ScaledRows == Transform(Fit(FeatureValues(win.rows)), FeatureValues(win.rows))

\* C10: on a matrix of L rows with sequence length S, prepare_data returns
\* L - S windows when L > S and none otherwise; window k (from 0) has as
\* input rows k .. k+S-1 in order and as target column 0 of row S+k, windows
\* in ascending k.
WindowsAligned ==
    win.done =>
        /\ Len(win.X) = IF Len(win.rows) > win.S THEN Len(win.rows) - win.S ELSE 0
        /\ Len(win.y) = Len(win.X)
        /\ \A k \in 0..(Len(win.rows) - win.S - 1) :
              /\ win.X[k + 1] = [j \in 1..win.S |-> ScaledRows[k + j]]
              /\ win.y[k + 1] = ScaledRows[win.S + k + 1][1]

\* C10 witness: prepare_data has returned several windows whose targets
\* differ
SeveralWindows ==
    /\ win.done
    /\ Len(win.X) > 1
    /\ win.S > 1
    /\ \E k \in DOMAIN win.y : win.y[k] # win.y[1]

\* the scaled matrix whose windows train splits
SplitRows == Transform(Fit(FeatureValues(fn.rows)), FeatureValues(fn.rows))

\* the index of the row of SplitRows that is row, and of the one whose price
\* is price
RowIndex(row) == CHOOSE r \in DOMAIN SplitRows : SplitRows[r] = row
PriceIndex(price) == CHOOSE r \in DOMAIN SplitRows : SplitRows[r][1] = price

\* C11: train splits its N windows, in order, into the first floor(0.8 * N)
\* for training and the rest for validation; every row a training window
\* uses, as input or as target, comes before the target row of every
\* validation window; and neither set is empty once the minimum-data check
\* is passed.
SplitChronological ==
    fn.op = "split" /\ fn.done =>
        /\ fn.returned <=> Len(fn.rows) < fn.S + 10
        /\ ~fn.returned =>
              /\ 10 * Len(fn.split.X_train) <= 8 * Len(fn.w.X)
              /\ 8 * Len(fn.w.X) < 10 * (Len(fn.split.X_train) + 1)
              /\ fn.split.X_train \o fn.split.X_val =
                    [k \in 1..(Len(fn.rows) - fn.S) |->
                        [j \in 1..fn.S |-> SplitRows[k - 1 + j]]]
              /\ fn.split.y_train \o fn.split.y_val =
                    [k \in 1..(Len(fn.rows) - fn.S) |-> SplitRows[k + fn.S][1]]
              /\ Len(fn.split.y_train) = Len(fn.split.X_train)
              /\ fn.split.X_train # <<>>
              /\ fn.split.X_val # <<>>
              /\ \A a \in DOMAIN fn.split.X_train, b \in DOMAIN fn.split.y_val :
                    /\ PriceIndex(fn.split.y_train[a]) < PriceIndex(fn.split.y_val[b])
                    /\ \A j \in 1..fn.S :
                          RowIndex(fn.split.X_train[a][j]) < PriceIndex(fn.split.y_val[b])

\* C11 witness: train has split a number of windows that is no multiple of 5
SplitWithRemainder ==
    /\ fn.op = "split"
    /\ fn.done
    /\ ~fn.returned
    /\ 10 * Len(fn.split.X_train) < 8 * Len(fn.w.X)
    /\ Len(fn.split.X_val) > 1

\* the label is known for fn.percent_change, whose magnitude is n / d
Labelled(n, d) ==
    /\ fn.op = "confidence"
    /\ fn.done
    /\ fn.percent_change \in {<<n, d>>, <<0 - n, d>>}

\* C12 as stated: 5.0 gives medium, 2.0 gives medium, 2.0001 gives medium,
\* 0.0 gives high, and so do the negated values.
BoundaryLabelsStated ==
    /\ Labelled(5, 1) => fn.label = "medium"
    /\ Labelled(2, 1) => fn.label = "medium"
    /\ Labelled(20001, 10000) => fn.label = "medium"
    /\ Labelled(0, 1) => fn.label = "high"

\* C12 amended: 5.0 gives medium, 2.0 gives high, 2.0001 gives medium, 0.0
\* gives high, and so do the negated values.
BoundaryLabels ==
    /\ Labelled(5, 1) => fn.label = "medium"
    /\ Labelled(2, 1) => fn.label = "high"
    /\ Labelled(20001, 10000) => fn.label = "medium"
    /\ Labelled(0, 1) => fn.label = "high"

\* C12 witness: the label of -2.0 is known
LabelledMinusTwo ==
    /\ Labelled(2, 1)
    /\ fn.percent_change[1] < 0

\* low is the least confidence, high the most
ConfidenceRank(label) ==
    CASE label = "low" -> 0 [] label = "medium" -> 1 [] label = "high" -> 2

\* the magnitude of x is at most that of y
NoLarger(x, y) == Abs(x[1]) * y[2] <= Abs(y[1]) * x[2]

\* C13: _calculate_confidence gives low exactly for magnitudes > 5, medium
\* exactly for magnitudes > 2 and <= 5, high otherwise; p and -p get the same
\* label, and a larger magnitude never gets a higher confidence.
LabelByMagnitude ==
    fn.op = "confidence" /\ fn.done =>
        LET n == Abs(fn.percent_change[1])
            d == fn.percent_change[2]
        IN  /\ fn.label \in {"low", "medium", "high"}
            /\ fn.label = "low" <=> n > 5 * d
            /\ fn.label = "medium" <=> n > 2 * d /\ n <= 5 * d
            /\ fn.label = "high" <=> n <= 2 * d
            /\ _calculate_confidence(<<0 - fn.percent_change[1], d>>) = fn.label
            /\ \A q \in PercentChanges :
                  NoLarger(fn.percent_change, q) =>
                      ConfidenceRank(_calculate_confidence(q)) <=
                          ConfidenceRank(fn.label)

\* C13 witness: a negative percent change has got the label low
NegativeLabelledLow ==
    /\ fn.op = "confidence"
    /\ fn.done
    /\ fn.percent_change[1] < 0
    /\ fn.label = "low"

\* the metrics key of call c, and whether call c made collaborator call name
MetricsKeyOf(c) ==
    [ns |-> "ml:training:metrics", venue |-> Lower(c.venue), symbol |-> Lower(c.symbol)]
Called(c, name) == \E k \in DOMAIN c.calls : c.calls[k] = name

\* C14: train returns True exactly when the engine's fit completed and the
\* metrics were then written; a train that returns True makes one store
\* write, a SET without expiry of ml:training:metrics:<lowercase venue>:
\* <lowercase symbol> whose data_points is rows - sequence_length; any other
\* train writes nothing; no train changes a prediction key.
TrainWritesMetrics ==
    [][\A i \in Instances :
          TrainCall(i) =>
              /\ last'[i].result = "True" <=>
                    /\ Called(last'[i], "fit")
                    /\ Called(last'[i], "set")
                    /\ last'[i].raised = "none"
              /\ last'[i].result = "True" =>
                    /\ kv'[MetricsKeyOf(last'[i])].ttl = -1
                    /\ kv'[MetricsKeyOf(last'[i])].val.kind = "json"
                    /\ kv'[MetricsKeyOf(last'[i])].val.doc.data_points =
                          last'[i].rows - 60
                    /\ kv'[MetricsKeyOf(last'[i])].val.doc.venue = last'[i].venue
                    /\ kv'[MetricsKeyOf(last'[i])].val.doc.symbol = last'[i].symbol
                    /\ \A k \in KvKeys \ {MetricsKeyOf(last'[i])} : kv'[k] = kv[k]
              /\ last'[i].result # "True" => kv' = kv
              /\ \A k \in PredictionKeys : kv'[k] = kv[k]]_vars

\* C14 witness: a train that returned True has replaced the metrics an
\* earlier train wrote under another spelling of the venue
MetricsReplacedAcrossCase ==
    \E i \in Instances :
        /\ Returned(i, "train", "True")
        /\ last[i].pre # NoKey
        /\ last[i].pre.val.doc.venue # last[i].venue
        /\ kv[MetricsKeyOf(last[i])].val.doc.venue = last[i].venue

\* for each range of stored records a fetch can find, the price of its last
\* row (0 when it has no row)
LastPrice ==
    [fr \in Frames |->
        IF Parsed[fr] = <<>> \/ Fetched[fr].bad THEN <<0, 1>>
        ELSE Parsed[fr][Len(Parsed[fr])].price]

\* the price of the last row that the range query of call c finds in the
\* store
CurrentPriceOf(c) ==
    LastPrice[[series |-> series[[ns |-> "orderbook:summary",
                                  venue |-> Lower(c.venue), symbol |-> Lower(c.symbol)]],
               lookback |-> PredictLookbackDays]]

\* the fractions x - y = z and 100 * x / y = z
IsDifference(x, y, z) == (x[1] * y[2] - y[1] * x[2]) * z[2] = z[1] * (x[2] * y[2])
IsPercentage(x, y, z) == 100 * x[1] * y[2] * z[2] = z[1] * (x[2] * y[1])

\* the label of the magnitude of the fraction x
LabelOf(x) ==
    IF Abs(x[1]) > 5 * x[2] THEN "low"
    ELSE IF Abs(x[1]) > 2 * x[2] THEN "medium"
    ELSE "high"

\* C15: in every Prediction predict_next returns, current_price is the price
\* of the last fetched row, price_change is predicted_price - current_price,
\* percent_change is 100 * price_change / current_price and confidence is the
\* label of that percent_change.
PredictionArithmetic ==
    \A i \in Instances :
        Returned(i, "predict_next", "Prediction") =>
            /\ last[i].value.doc.current_price = CurrentPriceOf(last[i])
            /\ IsDifference(last[i].value.doc.predicted_price,
                            last[i].value.doc.current_price,
                            last[i].value.doc.price_change)
            /\ IsPercentage(last[i].value.doc.price_change,
                            last[i].value.doc.current_price,
                            last[i].value.doc.percent_change)
            /\ last[i].value.doc.confidence = LabelOf(last[i].value.doc.percent_change)

\* C15 witness: a Prediction of a falling price has been returned with low
\* confidence
FallPredictedWithLowConfidence ==
    \E i \in Instances :
        /\ Returned(i, "predict_next", "Prediction")
        /\ last[i].value.doc.price_change[1] < 0
        /\ last[i].value.doc.confidence = "low"

\* the data key of call c
DataKeyOf(c) ==
    [ns |-> "orderbook:summary", venue |-> Lower(c.venue), symbol |-> Lower(c.symbol)]

\* C16: every Prediction of predict_next(venue, symbol) is made with a scaler
\* fitted, and model parameters produced, by a train call of that instance
\* for the same (venue, symbol).
PredictionFromOwnTraining ==
    \A i \in Instances :
        last[i].op = "predict_next" /\ last[i].result \in {"pending", "Prediction"} =>
            /\ fit_of[i].scaler = DataKeyOf(last[i])
            /\ fit_of[i].model = DataKeyOf(last[i])

\* C17: only train changes an instance's scaler state and model parameters:
\* predict_next, save_model and fetch_training_data leave them unchanged
\* whether they succeed or fail; and the predicted price of a predict_next
\* call is the inverse transform, under the scaler state the call began
\* with, of an output of the engine.
ScalerChangedOnlyByTrain ==
    [][\A i \in Instances :
          /\ last'[i].op \in {"predict_next", "save_model", "fetch_training_data"} =>
                scaler'[i] = scaler[i] /\ model'[i] = model[i]
          /\ scaler'[i] # scaler[i] \/ model'[i] # model[i] =>
                last'[i].op \in {"train", "__init__"}
          /\ PredictCall(i) /\ last'[i].result = "pending" =>
                /\ scaler[i].fitted
                /\ \E out \in use.outputs :
                      IsDifference(last'[i].value.doc.predicted_price,
                                   scaler[i].data_min[1],
                                   RMul(out, RSub(scaler[i].data_max[1],
                                                  scaler[i].data_min[1])))]_vars

\* C17 witness: save_model has failed on an instance that is trained, and its
\* scaler is still fitted
SaveFailedOnTrained ==
    \E i \in Instances :
        /\ Returned(i, "save_model", "False")
        /\ scaler[i].fitted
        /\ model[i].fits > 0

\* key belongs to the venue of instance i
Own(i, key) == key.venue = Lower(VenueOf[i])

\* the store with only the keys of instance i's venue, as it is when i runs
\* alone
OwnKv(i) == [k \in KvKeys |-> IF Own(i, k) THEN kv[k] ELSE NoKey]
OwnSeries(i) == [k \in DataKeys |-> IF Own(i, k) THEN series[k] ELSE NoSeries]

\* after this step the keys of instance i's venue hold what they hold in store
SameOwn(i, store) == \A k \in KvKeys : Own(i, k) => kv'[k] = store[k]

\* this step of train on instance i does what r, the call on OwnKv(i), does
TrainsAs(i, r) ==
    /\ r.result = last'[i].result
    /\ r.scaler = scaler'[i]
    /\ r.model = model'[i]
    /\ SameOwn(i, r.kv)

\* this step of predict_next on instance i does what r, the call on
\* OwnKv(i), does
PredictsAs(i, r) ==
    /\ r.result = last'[i].result
    /\ r.value = last'[i].value
    /\ SameOwn(i, r.kv)

\* this step is the EXPIRE and the return of instance i's predict_next
ExpireStep(i) ==
    /\ pc[i] = "expire"
    /\ pc'[i] = "idle"
    /\ \A j \in Instances \ {i} :
          <<last[j], scaler[j], model[j], status[j], pc[j]>>' =
          <<last[j], scaler[j], model[j], status[j], pc[j]>>

\* C18: two instances used for venues that differ after case-folding: every
\* step of a call of one instance leaves the keys of the other venue
\* unchanged, and does to its own keys, and returns, what the same call does
\* on a store that holds the instance's own keys only.
InstancesIndependent ==
    [][\A i \in Instances :
          /\ TrainCall(i) \/ PredictCall(i) \/ ExpireStep(i) =>
                \A k \in KvKeys : ~Own(i, k) => kv'[k] = kv[k]
          /\ TrainCall(i) =>
                \E f \in TrainFaults, hist \in Histories :
                    TrainsAs(i, train(scaler[i], model[i], OwnKv(i), OwnSeries(i),
                                      last'[i].venue, last'[i].symbol, f, hist, FALSE))
          /\ PredictCall(i) =>
                \E f \in PredictFaults, out \in use.outputs :
                    PredictsAs(i, predict_next(scaler[i], model[i], OwnKv(i),
                                               OwnSeries(i), last'[i].venue,
                                               last'[i].symbol, last'[i].h, f, out))
          /\ ExpireStep(i) =>
                \/ SameOwn(i, OwnKv(i))
                \/ SameOwn(i, Expire(OwnKv(i),
                                     PredictionKey(last[i].venue, last[i].symbol),
                                     60 * last[i].h))]_vars

\* C18 witness: one instance is between the SET and the EXPIRE of its
\* prediction while the other has returned a Prediction, both keys present
BothPredicting ==
    /\ pc["m1"] = "expire"
    /\ Returned("m2", "predict_next", "Prediction")
    /\ \A i \in Instances :
          kv[[ns |-> "ml:predictions", venue |-> Lower(VenueOf[i]),
              symbol |-> Lower(last[i].symbol)]] # NoKey

\* C19: the feature extraction gives one feature row per fetched record, in
\* the records' order, also when a record has bid_volume + ask_volume = 0.
ExtractionTotal ==
    fn.op = "extract" /\ fn.done =>
        /\ ~fn.none
        /\ Len(fn.rows) = Len(fn.raw_data)
        /\ \A k \in DOMAIN fn.rows :
              /\ fn.rows[k].timestamp = fn.raw_data[k].timestamp
              /\ fn.rows[k].price = <<fn.raw_data[k].price, 1>>

====
